---- MODULE Spec2Model ----
(***************************************************************************)
(* Species bookkeeping of a hydrogen-transport simulation:                 *)
(*   festim/species.py                     Species, Trap, ImplicitSpecies, *)
(*                                         find_species_from_name          *)
(*   festim/subdomain/surface_subdomain.py SurfaceSubdomain,               *)
(*                                         find_surface_from_id            *)
(*                                                                         *)
(* Four specifications share the variables; each one drives one part of    *)
(* the program and leaves the other parts as constructed:                  *)
(*   Spec         one ImplicitSpecies: create_value_fenics, update_density,*)
(*                concentration, and the solver binding others' solutions  *)
(*   SpecTrap     Trap.create_species_and_reaction on a heap of objects    *)
(*   SpecLookup   find_species_from_name and find_surface_from_id          *)
(*   SpecSurface  SurfaceSubdomain.locate_boundary_facet_indices           *)
(*                                                                         *)
(* Solver objects (fem.Constant, fem.Function, ufl expressions) are        *)
(* represented by their kind and by one sample value, an integer.          *)
(***************************************************************************)
EXTENDS Integers, Sequences, FiniteSets, TLC

VARIABLES
    n,              \* ImplicitSpecies.n, the value specification
    others,         \* ImplicitSpecies.others, a list of species
    solution,       \* Species.solution of every species of the pool
    value_fenics,   \* ImplicitSpecies.value_fenics (an attribute that may not exist)
    assigned,       \* history: a create_value_fenics call has assigned value_fenics
    lastT,          \* history: the time given to the latest create_value_fenics/update_density
    result,         \* what the latest call did: its outcome and what it returned
    trap,           \* a Trap: its parameters and its derived fields
    heap,           \* the Species, ImplicitSpecies and Reaction objects created so far
    species_list,   \* the list given to find_species_from_name (the name of each entry)
    surfaces_list,  \* the list given to find_surface_from_id (the id of each entry)
    found,          \* what the latest lookup did
    surface_id,     \* SurfaceSubdomain.id
    mesh_facets,    \* the mesh: the boundary facets the geometric service reports, per dimension
    located         \* what the latest locate_boundary_facet_indices did

ivars == <<n, others, solution, value_fenics, assigned, lastT, result>>
tvars == <<trap, heap>>
lvars == <<species_list, surfaces_list, found>>
svars == <<surface_id, mesh_facets, located>>
vars == <<ivars, tvars, lvars, svars>>

(***************************************************************************)
(* Bounds of the model.                                                    *)
(***************************************************************************)
MaxTime == 2
MaxOthers == 2
MaxSol == 2
MaxN == 2
MaxSlope == 1
MaxParam == 2
MaxExpand == 2
MaxList == 3
MaxId == 2
MaxFacet == 2
MaxFdim == 1

Times == 0..MaxTime
SpeciesIds == 1..MaxOthers

(***************************************************************************)
(* Species: name and solution. Species.__init__ leaves solution None.      *)
(***************************************************************************)
ImplicitName == "empty_sites"

NameOf(s) == "species_" \o ToString(s)

NoSolution == [set |-> FALSE, val |-> 0]

Solved(v) == [set |-> TRUE, val |-> v]

(***************************************************************************)
(* Value specifications n. A callable is described by what the code reads  *)
(* of it: its parameters, the other local variables of its body (both are  *)
(* listed by __code__.co_varnames), and what it returns.                   *)
(***************************************************************************)
ArgNames == {"t", "x", "T"}

LocalSets == {{}, {"x"}, {"T"}}

RetKinds == {"number", "Expr", "list"}

NumberSpecs ==
    [kind : {"number"}, val : 1..MaxN, params : {{}}, locals : {{}}, ret : {"none"}, k : {0}]

FieldSpecs ==
    [kind : {"field"}, val : 1..MaxN, params : {{}}, locals : {{}}, ret : {"none"}, k : {0}]

OtherSpecs ==
    [kind : {"other"}, val : {0}, params : {{}}, locals : {{}}, ret : {"none"}, k : {0}]

CallableSpecs ==
    {c \in [kind : {"callable"}, val : {0}, params : SUBSET ArgNames, locals : LocalSets,
            ret : RetKinds, k : 1..MaxSlope] : c.params \cap c.locals = {}}

ValueSpecs == NumberSpecs \cup FieldSpecs \cup OtherSpecs \cup CallableSpecs

\* f.__code__.co_varnames: the parameter names, then the names of the locals
co_varnames(f) == f.params \cup f.locals

\* callable(obj): functions are callable, and so are ufl expressions and
\* fem.Function (ufl gives Expr a __call__, the restriction/evaluation u("+"))
IsCallable(v) == v.kind \in {"callable", "field"}

\* only a function object has __code__
HasCode(v) == v.kind = "callable"

\* f(**kwargs) with the keyword names kw: Python raises TypeError unless the
\* keywords are exactly the (required) parameters
CallAccepted(f, kw) == kw = f.params

\* the number a callable computes at time t (a line in t when it takes t)
FnValue(f, t) == IF "t" \in f.params THEN f.k * t + 1 ELSE f.k

(***************************************************************************)
(* value_fenics.                                                           *)
(***************************************************************************)
NoAttribute == [set |-> FALSE, kind |-> "none", val |-> 0]

\* F.as_fenics_constant(mesh, value): a fem.Constant holding value
as_fenics_constant(v) == [set |-> TRUE, kind |-> "Constant", val |-> v]

\* the object a callable returns, by the kind it returns
Returned(f, t) ==
    [set |-> TRUE,
     kind |-> CASE f.ret = "number" -> "float"
                [] f.ret = "Expr" -> "Expr"
                [] OTHER -> "list",
     val |-> IF f.ret = "list" THEN 0 ELSE FnValue(f, t)]

Outcome(op, outcome, path) ==
    [op |-> op, outcome |-> outcome, path |-> path, kwargs |-> {},
     val |-> 0, who |-> "", dep |-> ""]

\* ImplicitSpecies.__init__(n, others, name): value_fenics is not created
ImplicitConstructed ==
    /\ n \in ValueSpecs
    /\ others \in {[i \in 1..m |-> i] : m \in 0..MaxOthers}
    /\ solution = [s \in SpeciesIds |-> NoSolution]
    /\ value_fenics = NoAttribute
    /\ assigned = FALSE
    /\ lastT = 0
    /\ result = Outcome("init", "ok", "none")

\* one fixed ImplicitSpecies(n=1, others=[]), for the specifications of the other parts
ImplicitIdle ==
    /\ n = [kind |-> "number", val |-> 1, params |-> {}, locals |-> {}, ret |-> "none", k |-> 0]
    /\ others = <<>>
    /\ solution = [s \in SpeciesIds |-> NoSolution]
    /\ value_fenics = NoAttribute
    /\ assigned = FALSE
    /\ lastT = 0
    /\ result = Outcome("init", "ok", "none")

(***************************************************************************)
(* ImplicitSpecies.create_value_fenics(mesh, t): t is the time, a          *)
(* fem.Constant; x is the spatial coordinate of the mesh.                  *)
(***************************************************************************)
\* "t" in arguments and "x" not in arguments and "T" not in arguments
OnlyTime(arguments) == "t" \in arguments /\ "x" \notin arguments /\ "T" \notin arguments

\* kwargs of the general branch: t and x, each when it is in arguments
BuildKwargs(arguments) ==
    (IF "t" \in arguments THEN {"t"} ELSE {}) \cup (IF "x" \in arguments THEN {"x"} ELSE {})

\* the callable branch: the value assigned (when one is) and the outcome
BindCallable(t) ==
    LET arguments == co_varnames(n) IN
    IF OnlyTime(arguments)
    THEN IF ~CallAccepted(n, {"t"})
         THEN [assigns |-> FALSE, vf |-> value_fenics,
               res |-> [Outcome("bind", "TypeError", "eager") EXCEPT !.kwargs = {"t"}]]
         ELSE IF n.ret # "number"
         THEN [assigns |-> FALSE, vf |-> value_fenics,
               res |-> [Outcome("bind", "ValueError", "eager") EXCEPT !.kwargs = {"t"}]]
         ELSE [assigns |-> TRUE, vf |-> as_fenics_constant(FnValue(n, t)),
               res |-> [Outcome("bind", "ok", "eager") EXCEPT !.kwargs = {"t"}]]
    ELSE LET kwargs == BuildKwargs(arguments) IN
         IF ~CallAccepted(n, kwargs)
         THEN [assigns |-> FALSE, vf |-> value_fenics,
               res |-> [Outcome("bind", "TypeError", "general") EXCEPT !.kwargs = kwargs]]
         ELSE [assigns |-> TRUE, vf |-> Returned(n, t),
               res |-> [Outcome("bind", "ok", "general") EXCEPT !.kwargs = kwargs]]

BindEffect(t) ==
    IF n.kind = "number"
    THEN [assigns |-> TRUE, vf |-> as_fenics_constant(n.val),
          res |-> Outcome("bind", "ok", "number")]
    ELSE IF n.kind = "field"
    THEN [assigns |-> TRUE, vf |-> [set |-> TRUE, kind |-> "field", val |-> n.val],
          res |-> Outcome("bind", "ok", "field")]
    ELSE IF n.kind = "callable"
    THEN BindCallable(t)
    ELSE [assigns |-> FALSE, vf |-> value_fenics, res |-> Outcome("bind", "ok", "none")]

create_value_fenics(t) ==
    LET e == BindEffect(t) IN
    /\ value_fenics' = e.vf
    /\ assigned' = (assigned \/ e.assigns)
    /\ result' = e.res
    /\ lastT' = t
    /\ UNCHANGED <<n, others, solution, tvars, lvars, svars>>

(***************************************************************************)
(* ImplicitSpecies.update_density(t).                                      *)
(***************************************************************************)
\* update_density with a slip: a missing value_fenics is passed over in silence
RefreshEffect_silentUnbound(t) ==
    IF ~IsCallable(n)
    THEN [vf |-> value_fenics, res |-> Outcome("refresh", "ok", "noop")]
    ELSE IF ~HasCode(n)
    THEN [vf |-> value_fenics, res |-> Outcome("refresh", "AttributeError", "none")]
    ELSE IF value_fenics.kind = "Constant" /\ "t" \in co_varnames(n)
    THEN IF ~CallAccepted(n, {"t"}) \/ n.ret # "number"
         THEN [vf |-> value_fenics, res |-> Outcome("refresh", "TypeError", "update")]
         ELSE [vf |-> [value_fenics EXCEPT !.val = FnValue(n, t)],
               res |-> Outcome("refresh", "ok", "update")]
    ELSE [vf |-> value_fenics, res |-> Outcome("refresh", "ok", "noop")]

RefreshEffect(t) ==
    IF ~IsCallable(n)
    THEN [vf |-> value_fenics, res |-> Outcome("refresh", "ok", "noop")]
    ELSE IF ~HasCode(n) \/ ~value_fenics.set
    THEN [vf |-> value_fenics, res |-> Outcome("refresh", "AttributeError", "none")]
    ELSE IF value_fenics.kind = "Constant" /\ "t" \in co_varnames(n)
    THEN IF ~CallAccepted(n, {"t"}) \/ n.ret # "number"
         THEN [vf |-> value_fenics, res |-> Outcome("refresh", "TypeError", "update")]
         ELSE [vf |-> [value_fenics EXCEPT !.val = FnValue(n, t)],
               res |-> Outcome("refresh", "ok", "update")]
    ELSE [vf |-> value_fenics, res |-> Outcome("refresh", "ok", "noop")]

update_density(t) ==
    LET e == RefreshEffect(t) IN
    /\ value_fenics' = e.vf
    /\ result' = e.res
    /\ lastT' = t
    /\ UNCHANGED <<n, others, solution, assigned, tvars, lvars, svars>>

(***************************************************************************)
(* ImplicitSpecies.concentration (a property read).                        *)
(***************************************************************************)
\* the positions of others whose species has no solution
Missing == {i \in 1..Len(others) : ~solution[others[i]].set}

\* the first entry the loop over others finds without a solution
FirstMissing == others[CHOOSE i \in Missing : \A j \in Missing : i <= j]

\* sum([other.solution for other in self.others]): 0, then each added in order
RECURSIVE SumSolutions(_)
SumSolutions(i) ==
    IF i = 0 THEN 0 ELSE SumSolutions(i - 1) + solution[others[i]].val

\* concentration with a slip: value_fenics is read before the loop over others
concentration_valueFirst ==
    IF ~value_fenics.set
    THEN Outcome("read", "AttributeError", "none")
    ELSE IF Len(others) > 0 /\ Missing # {}
    THEN [Outcome("read", "ValueError", "none") EXCEPT
              !.who = ImplicitName, !.dep = NameOf(FirstMissing)]
    ELSE IF value_fenics.kind = "list"
    THEN Outcome("read", "TypeError", "none")
    ELSE [Outcome("read", "ok", "none") EXCEPT
              !.val = value_fenics.val - SumSolutions(Len(others))]

\* concentration with a slip: the sum leaves out the last entry of others
concentration_shortSum ==
    IF Len(others) > 0 /\ Missing # {}
    THEN [Outcome("read", "ValueError", "none") EXCEPT
              !.who = ImplicitName, !.dep = NameOf(FirstMissing)]
    ELSE IF ~value_fenics.set
    THEN Outcome("read", "AttributeError", "none")
    ELSE IF value_fenics.kind = "list"
    THEN Outcome("read", "TypeError", "none")
    ELSE [Outcome("read", "ok", "none") EXCEPT
              !.val = value_fenics.val
                      - SumSolutions(IF Len(others) > 0 THEN Len(others) - 1 ELSE 0)]

concentration ==
    IF Len(others) > 0 /\ Missing # {}
    THEN [Outcome("read", "ValueError", "none") EXCEPT
              !.who = ImplicitName, !.dep = NameOf(FirstMissing)]
    ELSE IF ~value_fenics.set
    THEN Outcome("read", "AttributeError", "none")
    ELSE IF value_fenics.kind = "list"
    THEN Outcome("read", "TypeError", "none")
    ELSE [Outcome("read", "ok", "none") EXCEPT
              !.val = value_fenics.val - SumSolutions(Len(others))]

ReadConcentration ==
    /\ result' = concentration
    /\ UNCHANGED <<n, others, solution, value_fenics, assigned, lastT, tvars, lvars, svars>>

(***************************************************************************)
(* The solver binds (and at each step rebinds) the solution of a species.  *)
(***************************************************************************)
SolverBind(s, v) ==
    /\ solution' = [solution EXCEPT ![s] = Solved(v)]
    /\ result' = Outcome("solve", "ok", "none")
    /\ UNCHANGED <<n, others, value_fenics, assigned, lastT, tvars, lvars, svars>>

(***************************************************************************)
(* Trap. Objects live on a heap, one list per class; a reference is the    *)
(* position of the object in its list (0: None, or no such attribute).     *)
(***************************************************************************)
TrapNames == {"trap_a", "trap_b"}

Ref(cls, id) == [cls |-> cls, id |-> id]

\* Species.__init__(name, mobile): the fields this model follows
Species(name, mobile) == [name |-> name, mobile |-> mobile, solution |-> NoSolution]

\* ImplicitSpecies.__init__(n, others, name=None)
ImplicitSpecies(nn, oo) == [n |-> nn, others |-> oo, name |-> "None"]

\* F.Reaction(reactant, product, k_0, E_k, p_0, E_p, volume): keeps its arguments
Reaction(reactant, product, k_0, E_k, p_0, E_p, volume) ==
    [reactant |-> reactant, product |-> product, k_0 |-> k_0, E_k |-> E_k,
     p_0 |-> p_0, E_p |-> E_p, volume |-> volume]

\* Trap.__init__(name, mobile_species, k_0, E_k, p_0, E_p, n, volume)
TrapConstructed ==
    /\ heap = [species |-> <<Species("mobile", TRUE)>>, implicit |-> <<>>, reactions |-> <<>>]
    /\ trap \in [name : TrapNames, mobile : {TRUE}, mobile_species : {1},
                 k_0 : 1..MaxParam, E_k : 1..MaxParam, p_0 : 1..MaxParam, E_p : 1..MaxParam,
                 n : 1..MaxN, volume : 1..MaxParam,
                 trapped_concentration : {0}, empty_trap_sites : {0}, reaction : {0}]

\* one fixed Trap, for the specifications of the other parts
TrapIdle ==
    /\ heap = [species |-> <<Species("mobile", TRUE)>>, implicit |-> <<>>, reactions |-> <<>>]
    /\ trap = [name |-> "trap_a", mobile |-> TRUE, mobile_species |-> 1,
               k_0 |-> 1, E_k |-> 1, p_0 |-> 1, E_p |-> 1, n |-> 1, volume |-> 1,
               trapped_concentration |-> 0, empty_trap_sites |-> 0, reaction |-> 0]

\* create_species_and_reaction with a slip: E_k and E_p change places
create_species_and_reaction_swapped ==
    LET tc == Len(heap.species) + 1
        ets == Len(heap.implicit) + 1
        r == Len(heap.reactions) + 1
    IN
    /\ r <= MaxExpand
    /\ heap' = [species |-> Append(heap.species, Species(trap.name, FALSE)),
                implicit |-> Append(heap.implicit, ImplicitSpecies(trap.n, <<tc>>)),
                reactions |-> Append(heap.reactions,
                    Reaction(<<Ref("Species", trap.mobile_species), Ref("ImplicitSpecies", ets)>>,
                             tc, trap.k_0, trap.E_p, trap.p_0, trap.E_k, trap.volume))]
    /\ trap' = [trap EXCEPT !.trapped_concentration = tc, !.empty_trap_sites = ets,
                            !.reaction = r]
    /\ UNCHANGED <<ivars, lvars, svars>>

\* Trap.create_species_and_reaction(); the model stops after MaxExpand calls
create_species_and_reaction ==
    LET tc == Len(heap.species) + 1
        ets == Len(heap.implicit) + 1
        r == Len(heap.reactions) + 1
    IN
    /\ r <= MaxExpand
    /\ heap' = [species |-> Append(heap.species, Species(trap.name, FALSE)),
                implicit |-> Append(heap.implicit, ImplicitSpecies(trap.n, <<tc>>)),
                reactions |-> Append(heap.reactions,
                    Reaction(<<Ref("Species", trap.mobile_species), Ref("ImplicitSpecies", ets)>>,
                             tc, trap.k_0, trap.E_k, trap.p_0, trap.E_p, trap.volume))]
    /\ trap' = [trap EXCEPT !.trapped_concentration = tc, !.empty_trap_sites = ets,
                            !.reaction = r]
    /\ UNCHANGED <<ivars, lvars, svars>>

(***************************************************************************)
(* Lookup helpers. An entry of a list is known by its position; the lists  *)
(* hold the name (the id) of each entry, and duplicates may occur.         *)
(***************************************************************************)
ListNames == {"H", "D"}

QueryNames == ListNames \cup {"T"}

Ids == 1..MaxId

QueryIds == 1..(MaxId + 1)

BoundedSeq(S, k) == UNION {[1..m -> S] : m \in 0..k}

Lookup(op, qname, qid, index) ==
    [op |-> op, query_name |-> qname, query_id |-> qid,
     outcome |-> IF index = 0 THEN "ValueError" ELSE "ok",
     index |-> index,
     msg_name |-> IF index = 0 THEN qname ELSE "",
     msg_id |-> IF index = 0 THEN qid ELSE 0]

LookupConstructed ==
    /\ species_list \in BoundedSeq(ListNames, MaxList)
    /\ surfaces_list \in BoundedSeq(Ids, MaxList)
    /\ found = Lookup("init", "", 0, 1)

LookupIdle ==
    /\ species_list = <<>>
    /\ surfaces_list = <<>>
    /\ found = Lookup("init", "", 0, 1)

\* find_species_from_name with a slip: the loop runs on, the last match wins
RECURSIVE find_species_from_name_last(_, _, _)
find_species_from_name_last(name, species, i) ==
    IF i > Len(species) THEN 0
    ELSE LET later == find_species_from_name_last(name, species, i + 1) IN
         IF later # 0 THEN later ELSE IF species[i] = name THEN i ELSE 0

\* find_species_from_name(name, species), the loop from entry i on:
\* the position of the entry returned, 0 when the loop ends and it raises
RECURSIVE find_species_from_name(_, _, _)
find_species_from_name(name, species, i) ==
    IF i > Len(species) THEN 0
    ELSE IF species[i] = name THEN i
    ELSE find_species_from_name(name, species, i + 1)

\* find_surface_from_id(id, surfaces), the loop from entry i on
RECURSIVE find_surface_from_id(_, _, _)
find_surface_from_id(id, surfaces, i) ==
    IF i > Len(surfaces) THEN 0
    ELSE IF surfaces[i] = id THEN i
    ELSE find_surface_from_id(id, surfaces, i + 1)

FindSpecies(name) ==
    /\ found' = Lookup("find_species", name, 0, find_species_from_name(name, species_list, 1))
    /\ UNCHANGED <<species_list, surfaces_list, ivars, tvars, svars>>

FindSurface(id) ==
    /\ found' = Lookup("find_surface", "", id, find_surface_from_id(id, surfaces_list, 1))
    /\ UNCHANGED <<species_list, surfaces_list, ivars, tvars, svars>>

(***************************************************************************)
(* SurfaceSubdomain. The mesh is known by what                             *)
(* dolfinx.mesh.locate_entities_boundary reports for it: per dimension,    *)
(* the boundary facet indices, in ascending order.                         *)
(***************************************************************************)
FDims == 0..MaxFdim

Ascending(S) ==
    CHOOSE f \in [1..Cardinality(S) -> S] : \A i, j \in 1..Cardinality(S) : i < j => f[i] < f[j]

FacetLists == {Ascending(S) : S \in SUBSET (0..MaxFacet)}

\* locate_entities_boundary(mesh, fdim, marker) with the marker that is True
\* everywhere: every boundary facet of the mesh at that dimension
locate_entities_boundary(mesh, fdim) == mesh[fdim]

Located(op, fdim, outcome, shape, items) ==
    [op |-> op, fdim |-> fdim, outcome |-> outcome, shape |-> shape, items |-> items]

SurfaceConstructed ==
    /\ surface_id \in Ids
    /\ mesh_facets \in [FDims -> FacetLists]
    /\ located = Located("init", 0, "ok", "none", <<>>)

SurfaceIdle ==
    /\ surface_id = 1
    /\ mesh_facets = [d \in FDims |-> <<>>]
    /\ located = Located("init", 0, "ok", "none", <<>>)

\* locate_boundary_facet_indices with a slip: indices[-1] in place of indices[0]
locate_boundary_facet_indices_last(mesh, fdim) ==
    LET indices == locate_entities_boundary(mesh, fdim) IN
    IF Len(indices) = 0
    THEN Located("locate", fdim, "IndexError", "none", <<>>)
    ELSE Located("locate", fdim, "ok", "scalar", <<indices[Len(indices)]>>)

\* SurfaceSubdomain.locate_boundary_facet_indices(mesh, fdim): indices[0],
\* one element of the array (IndexError when the array is empty)
locate_boundary_facet_indices(mesh, fdim) ==
    LET indices == locate_entities_boundary(mesh, fdim) IN
    IF Len(indices) = 0
    THEN Located("locate", fdim, "IndexError", "none", <<>>)
    ELSE Located("locate", fdim, "ok", "scalar", <<indices[1]>>)

Locate(fdim) ==
    /\ located' = locate_boundary_facet_indices(mesh_facets, fdim)
    /\ UNCHANGED <<surface_id, mesh_facets, ivars, tvars, lvars>>

(***************************************************************************)
(* The specifications.                                                     *)
(***************************************************************************)
Init == ImplicitConstructed /\ TrapIdle /\ LookupIdle /\ SurfaceIdle

Next ==
    \/ \E t \in Times : create_value_fenics(t)
    \/ \E t \in Times : update_density(t)
    \/ ReadConcentration
    \/ \E s \in 1..Len(others), v \in 1..MaxSol : SolverBind(s, v)

Spec == Init /\ [][Next]_vars

InitTrap == ImplicitIdle /\ TrapConstructed /\ LookupIdle /\ SurfaceIdle

NextTrap == create_species_and_reaction

SpecTrap == InitTrap /\ [][NextTrap]_vars

InitLookup == ImplicitIdle /\ TrapIdle /\ LookupConstructed /\ SurfaceIdle

NextLookup ==
    \/ \E name \in QueryNames : FindSpecies(name)
    \/ \E id \in QueryIds : FindSurface(id)

SpecLookup == InitLookup /\ [][NextLookup]_vars

InitSurface == ImplicitIdle /\ TrapIdle /\ LookupIdle /\ SurfaceConstructed

NextSurface == \E fdim \in FDims : Locate(fdim)

SpecSurface == InitSurface /\ [][NextSurface]_vars

(***************************************************************************)
(* Properties of ImplicitSpecies, checked under Spec.                      *)
(***************************************************************************)
AllSolved == \A i \in 1..Len(others) : solution[others[i]].set

\* V - sA - sB - ...: the solutions taken off one by one, in list order
RECURSIVE TakeOff(_, _)
TakeOff(v, i) ==
    IF i > Len(others) THEN v ELSE TakeOff(v - solution[others[i]].val, i + 1)

\* a callable that accepts t and nothing else
AcceptsOnlyT(f) == f.kind = "callable" /\ f.params = {"t"}

\* a callable that accepts x and/or T
AcceptsSpaceOrTemp(f) == f.kind = "callable" /\ f.params \cap {"x", "T"} # {}

\* C1: a read of concentration while some entry of others has no solution
\* ends in a ValueError that names the implicit species and the first such
\* entry in list order, whatever value_fenics is.
C1_UnresolvedDependency ==
    (result.op = "read" /\ ~AllSolved) =>
        /\ result.outcome = "ValueError"
        /\ result.who = ImplicitName
        /\ \E i \in 1..Len(others) :
              /\ ~solution[others[i]].set
              /\ \A j \in 1..(i - 1) : solution[others[j]].set
              /\ result.dep = NameOf(others[i])

\* C1 witness: two others, the first solved and the second not, value_fenics
\* never created, and the read has failed naming the second
C1_Witness ==
    /\ result.op = "read"
    /\ Len(others) = 2
    /\ solution[others[1]].set
    /\ ~solution[others[2]].set
    /\ ~value_fenics.set
    /\ result.outcome = "ValueError"
    /\ result.dep = NameOf(others[2])

\* C2: with value_fenics bound to V (a value that supports subtraction) and
\* every entry of others solved, a read returns V - s1 - s2 - ..., and a read
\* changes neither value_fenics nor any solution.
C2_ConcentrationValue ==
    /\ [](  (result.op = "read" /\ value_fenics.set /\ value_fenics.kind # "list"
                /\ AllSolved)
            => (result.outcome = "ok" /\ result.val = TakeOff(value_fenics.val, 1)))
    /\ [][result'.op = "read" => UNCHANGED <<value_fenics, solution>>]_vars

\* C2 witness: others = [A, B] with different solutions, value_fenics bound,
\* and the read has returned
C2_Witness ==
    /\ result.op = "read"
    /\ result.outcome = "ok"
    /\ Len(others) = 2
    /\ solution[others[1]].val # solution[others[2]].val
    /\ value_fenics.set
    /\ result.val = value_fenics.val - solution[others[1]].val - solution[others[2]].val

\* C3: for a callable that accepts only t and returns a number, after
\* create_value_fenics and after any later update_density the bound value is
\* f at the time of the latest of these calls.
C3_TimeCallableTracksTime ==
    (/\ AcceptsOnlyT(n) /\ n.ret = "number"
     /\ (result.op = "bind" \/ (result.op = "refresh" /\ assigned)))
    => (value_fenics.set /\ value_fenics.val = FnValue(n, lastT))

\* C4: for a callable that accepts only t and returns a non-number,
\* create_value_fenics fails with a TypeError raised by its type check.
C4_NonNumberIsTypeError ==
    (AcceptsOnlyT(n) /\ n.ret # "number" /\ result.op = "bind")
    => (result.outcome = "TypeError" /\ result.path = "eager")

\* C5: update_density changes value_fenics only for a callable bound on the
\* only-t branch; for a number, a field or a callable accepting x and/or T,
\* update_density after a bind completes without error and leaves
\* value_fenics as it was.
C5_RefreshIsNoOpElsewhere ==
    [][ (result'.op = "refresh" /\ value_fenics.set) =>
          /\ (value_fenics' # value_fenics => AcceptsOnlyT(n))
          /\ (n.kind \in {"number", "field"} \/ AcceptsSpaceOrTemp(n))
                => (result'.outcome = "ok" /\ value_fenics' = value_fenics) ]_vars

\* C6: create_value_fenics takes the eager numeric path exactly for the
\* callables that accept t and neither x nor T; for a callable accepting x
\* and/or T it calls n with the accepted subset of {t, x} and stores what n
\* returns.
C6_ClassifiedByParameters ==
    (n.kind = "callable" /\ result.op = "bind") =>
        /\ (result.path = "eager")
              <=> ("t" \in n.params /\ "x" \notin n.params /\ "T" \notin n.params)
        /\ AcceptsSpaceOrTemp(n) =>
              /\ result.path = "general"
              /\ result.kwargs = n.params \cap {"t", "x"}
              /\ result.outcome = "ok"
              /\ value_fenics = Returned(n, lastT)

\* C10: value_fenics exists only once a create_value_fenics call has assigned
\* it; a read returns a value only if that has happened and every entry of
\* others is solved, and ends in an error in every other state; and
\* update_density of a callable n before any bind ends in an error.
C10_Sequencing ==
    /\ value_fenics.set => assigned
    /\ (result.op = "read" /\ result.outcome = "ok") => (assigned /\ AllSolved)
    /\ (result.op = "read" /\ ~(value_fenics.set /\ AllSolved)) => result.outcome # "ok"
    /\ (result.op = "refresh" /\ n.kind = "callable" /\ ~value_fenics.set)
          => result.outcome # "ok"

\* C10 witness: every entry of others is solved but no bind has happened,
\* and the read has ended in an error
C10_Witness ==
    /\ result.op = "read"
    /\ Len(others) > 0
    /\ AllSolved
    /\ ~assigned
    /\ result.outcome = "AttributeError"

(***************************************************************************)
(* Properties of Trap, checked under SpecTrap.                             *)
(***************************************************************************)
\* C7: after every create_species_and_reaction, repeated calls included,
\* trapped_concentration is a Species with mobile=False and the Trap's name;
\* empty_trap_sites is an ImplicitSpecies with the Trap's n and
\* others = [trapped_concentration]; reaction has
\* reactant = [mobile_species, empty_trap_sites], that same
\* trapped_concentration as product, and the Trap's k_0, E_k, p_0, E_p and
\* volume; and the call changes none of the Trap's own parameters.
C7_TrapExpansion ==
    /\ [](trap.reaction # 0 =>
            LET tc == trap.trapped_concentration
                ets == trap.empty_trap_sites
                r == heap.reactions[trap.reaction]
            IN
            /\ tc \in 1..Len(heap.species)
            /\ heap.species[tc].mobile = FALSE
            /\ heap.species[tc].name = trap.name
            /\ ets \in 1..Len(heap.implicit)
            /\ heap.implicit[ets].n = trap.n
            /\ heap.implicit[ets].others = <<tc>>
            /\ Len(r.reactant) = 2
            /\ r.reactant[1] = Ref("Species", trap.mobile_species)
            /\ r.reactant[2] = Ref("ImplicitSpecies", ets)
            /\ r.product = tc
            /\ r.k_0 = trap.k_0 /\ r.E_k = trap.E_k
            /\ r.p_0 = trap.p_0 /\ r.E_p = trap.E_p
            /\ r.volume = trap.volume)
    /\ [][ /\ trap'.name = trap.name /\ trap'.mobile = trap.mobile
           /\ trap'.mobile_species = trap.mobile_species
           /\ trap'.k_0 = trap.k_0 /\ trap'.E_k = trap.E_k
           /\ trap'.p_0 = trap.p_0 /\ trap'.E_p = trap.E_p
           /\ trap'.n = trap.n /\ trap'.volume = trap.volume ]_vars

\* C7 witness: the second call has run, on a Trap whose four kinetic
\* parameters are not all equal
C7_Witness ==
    /\ Len(heap.reactions) = 2
    /\ trap.reaction = 2
    /\ trap.trapped_concentration = 3
    /\ trap.E_k # trap.E_p
    /\ trap.k_0 # trap.p_0

(***************************************************************************)
(* Properties of the lookup helpers, checked under SpecLookup.             *)
(***************************************************************************)
\* the positions of the entries of keys equal to q
Matches(keys, q) == {i \in 1..Len(keys) : keys[i] = q}

\* C8: each lookup returns the first entry in list order whose key equals the
\* query (with duplicates the first wins); it fails, with an error that holds
\* the query key, exactly when no entry matches (the empty list included);
\* and the list is left as it was.
C8_FirstMatchWins ==
    /\ [](found.op = "find_species" =>
            LET m == Matches(species_list, found.query_name) IN
            IF m = {}
            THEN found.outcome = "ValueError" /\ found.msg_name = found.query_name
            ELSE /\ found.outcome = "ok"
                 /\ found.index \in m
                 /\ \A j \in m : found.index <= j)
    /\ [](found.op = "find_surface" =>
            LET m == Matches(surfaces_list, found.query_id) IN
            IF m = {}
            THEN found.outcome = "ValueError" /\ found.msg_id = found.query_id
            ELSE /\ found.outcome = "ok"
                 /\ found.index \in m
                 /\ \A j \in m : found.index <= j)
    /\ [][UNCHANGED <<species_list, surfaces_list>>]_vars

\* C8 witness: the queried name is held by more than one entry, the first of
\* them is not the first entry of the list, and the lookup has returned it
C8_Witness ==
    /\ found.op = "find_species"
    /\ found.outcome = "ok"
    /\ Cardinality(Matches(species_list, found.query_name)) >= 2
    /\ found.index = 2
    /\ species_list[1] # found.query_name

(***************************************************************************)
(* Properties of SurfaceSubdomain, checked under SpecSurface.              *)
(***************************************************************************)
\* C9 as claimed: locate_boundary_facet_indices returns every boundary facet
\* index the geometric service reports, the whole sequence in its order
\* (stated for a mesh that has boundary facets at fdim).
C9_ReturnsEveryFacet ==
    (located.op = "locate" /\ mesh_facets[located.fdim] # <<>>) =>
        (located.outcome = "ok" /\ located.items = mesh_facets[located.fdim])

\* C9 as amended: locate_boundary_facet_indices returns the first boundary
\* facet index the geometric service reports, one index and not the
\* sequence, whatever the subdomain's id; it raises IndexError when the
\* service reports none.
C9_ReturnsFirstFacet ==
    located.op = "locate" =>
        LET reported == mesh_facets[located.fdim] IN
        IF reported = <<>>
        THEN located.outcome = "IndexError"
        ELSE /\ located.outcome = "ok"
             /\ located.shape = "scalar"
             /\ located.items = <<Head(reported)>>

\* C9 witness: the service reports several facets and the call has returned
\* the first of them alone
C9_Witness ==
    /\ located.op = "locate"
    /\ Len(mesh_facets[located.fdim]) >= 2
    /\ located.outcome = "ok"
    /\ located.items = <<mesh_facets[located.fdim][1]>>

====
